---- MODULE Spec2Model ----
(***************************************************************************)
(* Model of the unordered-pair crate (src/src/lib.rs).                     *)
(*                                                                         *)
(* UnorderedPair<T> is a generic tuple struct of two values of one type T. *)
(* The crate's operations are pure; what they compute depends on T only    *)
(* through T's PartialEq, Ord and Hash implementations.  The model         *)
(* therefore carries the element type as state (ty) and draws the input    *)
(* tuples from small sets of values of three element types:                *)
(*   i32    the integers of the tests: equality is identity, total order;  *)
(*   f32    the floats of the test partial_eq_nan: PartialEq only, with a  *)
(*          NaN that is equal to nothing, itself included;                 *)
(*   ByKey  a lawful Eq + Ord + Hash type whose three implementations look *)
(*          at a key and ignore a tag, so that two values that compare     *)
(*          Equal can still be told apart (needed to observe tie-breaks).  *)
(* Each slot (pair1, pair2, pair3) is a binding of the caller, as in the   *)
(* tests: an input tuple, the pair built from it, and the results of the   *)
(* operations applied to that pair.  An absent value is the empty          *)
(* sequence, a present value v is <<v>>.                                   *)
(* The derived Debug, Clone, Copy, Default and the optional serde derives  *)
(* are not modelled.                                                       *)
(***************************************************************************)
EXTENDS Integers, Sequences, FiniteSets, TLC

VARIABLES ty, tuple, pair, into, ordered, hasher, eqres

vars == <<ty, tuple, pair, into, ordered, hasher, eqres>>

(* ---------------------------------------------------------------- bounds *)

\* Largest i32 / f32 value drawn as an input.
MaxInt == 2
\* Largest key of a ByKey value drawn as an input.
MaxKey == 1

(* --------------------------------------------------------- element types *)

\* The key that stands for f32::NAN.
NaN == -1

Tags == {"x", "y"}

Types == {"i32", "f32", "ByKey"}

\* The values of element type t that inputs are drawn from.
Elems(t) ==
    CASE t = "i32" -> [k : 0..MaxInt, tag : {"x"}]
      [] t = "f32" -> [k : {NaN} \cup (0..MaxInt), tag : {"x"}]
      [] OTHER     -> [k : 0..MaxKey, tag : Tags]

\* The bound T: Ord (and T: Ord + Hash): f32 implements neither.
IsOrd(t) == t \in {"i32", "ByKey"}

IsNaN(t, a) == t = "f32" /\ a.k = NaN

\* T's PartialEq::eq, the == of lines 67.
ElemEq(t, a, b) == ~IsNaN(t, a) /\ ~IsNaN(t, b) /\ a.k = b.k

\* T's Ord::cmp, as called at lines 42 and 82.
ElemCmp(a, b) ==
    IF a.k < b.k THEN "Less" ELSE IF a.k > b.k THEN "Greater" ELSE "Equal"

\* What T's Hash::hash writes to the hasher for one element.
ElemHash(a) == a.k

(* ------------------------------------------------------------- the crate *)

\* The tuple struct: UnorderedPair(a, b) stores a in field 0, b in field 1.
UnorderedPair(a, b) == [first |-> a, second |-> b]

\* Variant: the ordering test inverted (swaps on Less).
into_ordered_tuple_reversed(self) ==
    IF ElemCmp(self.first, self.second) = "Less"
    THEN <<self.second, self.first>>
    ELSE <<self.first, self.second>>

\* Variant: keeps the stored order on Less only (swaps on Equal too).
into_ordered_tuple_swap_ties(self) ==
    IF ElemCmp(self.first, self.second) = "Less"
    THEN <<self.first, self.second>>
    ELSE <<self.second, self.first>>

into_ordered_tuple(self) ==
    IF ElemCmp(self.first, self.second) = "Greater"
    THEN <<self.second, self.first>>
    ELSE <<self.first, self.second>>

\* Variant: the conversion canonicalizes the tuple it is given.
from_tuple_sorted(t) ==
    IF ElemCmp(t[1], t[2]) = "Greater"
    THEN UnorderedPair(t[2], t[1])
    ELSE UnorderedPair(t[1], t[2])

\* impl From<(T, T)> for UnorderedPair<T>
from_tuple(t) == UnorderedPair(t[1], t[2])

\* impl From<UnorderedPair<T>> for (T, T)
into_tuple(p) == <<p.first, p.second>>

\* Variant: positional comparison only, as a derived PartialEq would do.
eq_positional(t, self, other) ==
    ElemEq(t, self.first, other.first) /\ ElemEq(t, self.second, other.second)

\* Variant: the crossed comparison only.
eq_crossed(t, self, other) ==
    ElemEq(t, self.first, other.second) /\ ElemEq(t, self.second, other.first)

\* Variant: compares the stored representations instead of calling T's ==.
eq_bitwise(t, self, other) ==
    \/ self.first = other.first /\ self.second = other.second
    \/ self.first = other.second /\ self.second = other.first

\* Variant: the positional disjunct forgets the second field.
eq_first_only(t, self, other) ==
    \/ ElemEq(t, self.first, other.first)
    \/ ElemEq(t, self.first, other.second) /\ ElemEq(t, self.second, other.first)

eq(t, self, other) ==
    \/ ElemEq(t, self.first, other.first) /\ ElemEq(t, self.second, other.second)
    \/ ElemEq(t, self.first, other.second) /\ ElemEq(t, self.second, other.first)

\* Variant: no comparison, the fields are fed in stored order.
hash_stored_order(self, state) == state \o <<self.first, self.second>>

\* Variant: the Greater arm feeds first twice.
hash_first_twice(self, state) ==
    IF ElemCmp(self.first, self.second) = "Greater"
    THEN state \o <<self.first, self.first>>
    ELSE state \o <<self.first, self.second>>

\* hash(&self, state): state is the sequence of elements fed to the hasher.
hash(self, state) ==
    IF ElemCmp(self.first, self.second) = "Greater"
    THEN state \o <<self.second, self.first>>
    ELSE state \o <<self.first, self.second>>

\* Hasher::finish: the value the hasher holds is decided by what the fed
\* elements wrote to it, in order.
finish(state) == [i \in DOMAIN state |-> ElemHash(state[i])]

(* ----------------------------------------------------------------- state *)

Slots == {"pair1", "pair2", "pair3"}

\* The slots the conversions, the hash and the ordered tuple are applied to.
MainSlots == {"pair1", "pair2"}

\* The comparisons left == right the caller makes.
EqCalls == {<<"pair1", "pair2">>, <<"pair2", "pair3">>, <<"pair1", "pair3">>}

None == <<>>
Some(v) == <<v>>

Zero == [k |-> 0, tag |-> "x"]

Blank ==
    /\ pair = [s \in Slots |-> None]
    /\ into = [s \in Slots |-> None]
    /\ ordered = [s \in Slots |-> None]
    /\ hasher = [s \in Slots |-> <<>>]
    /\ eqres = [c \in EqCalls |-> None]

Init ==
    /\ ty \in Types
    /\ tuple \in [Slots -> Elems(ty) \X Elems(ty)]
    /\ tuple["pair3"] = <<Zero, Zero>>
    /\ Blank

\* The element types the comparisons of three pairs are run over: ByKey's ==
\* looks at the key alone, so it compares as i32 does.
EqTypes == {"i32", "f32"}

InitT ==
    /\ ty \in EqTypes
    /\ tuple \in [Slots -> Elems(ty) \X Elems(ty)]
    /\ Blank

(* --------------------------------------------------------------- actions *)

\* let pair = UnorderedPair(a, b);
New(s) ==
    /\ pair[s] = None
    /\ pair' = [pair EXCEPT ![s] = Some(UnorderedPair(tuple[s][1], tuple[s][2]))]
    /\ UNCHANGED <<ty, tuple, into, ordered, hasher, eqres>>

\* let pair = UnorderedPair::from(tuple);
From(s) ==
    /\ pair[s] = None
    /\ pair' = [pair EXCEPT ![s] = Some(from_tuple(tuple[s]))]
    /\ UNCHANGED <<ty, tuple, into, ordered, hasher, eqres>>

\* let tuple: (T, T) = pair.into();
Into(s) ==
    /\ pair[s] # None
    /\ into[s] = None
    /\ into' = [into EXCEPT ![s] = Some(into_tuple(pair[s][1]))]
    /\ UNCHANGED <<ty, tuple, pair, ordered, hasher, eqres>>

\* let tuple = pair.into_ordered_tuple();   (T: Ord)
IntoOrderedTuple(s) ==
    /\ IsOrd(ty)
    /\ pair[s] # None
    /\ ordered[s] = None
    /\ ordered' = [ordered EXCEPT ![s] = Some(into_ordered_tuple(pair[s][1]))]
    /\ UNCHANGED <<ty, tuple, pair, into, hasher, eqres>>

\* let mut hasher = Hasher::new(); pair.hash(&mut hasher);   (T: Ord + Hash)
Hash(s) ==
    /\ IsOrd(ty)
    /\ pair[s] # None
    /\ hasher[s] = <<>>
    /\ hasher' = [hasher EXCEPT ![s] = hash(pair[s][1], hasher[s])]
    /\ UNCHANGED <<ty, tuple, pair, into, ordered, eqres>>

\* left == right   (T: PartialEq)
Eq(c) ==
    /\ pair[c[1]] # None
    /\ pair[c[2]] # None
    /\ eqres[c] = None
    /\ eqres' = [eqres EXCEPT ![c] = Some(eq(ty, pair[c[1]][1], pair[c[2]][1]))]
    /\ UNCHANGED <<ty, tuple, pair, into, ordered, hasher>>

Next ==
    \/ \E s \in MainSlots : From(s)
    \/ \E s \in MainSlots : Into(s)
    \/ \E s \in MainSlots : IntoOrderedTuple(s)
    \/ \E s \in MainSlots : Hash(s)
    \/ Eq(<<"pair1", "pair2">>)

Spec == Init /\ [][Next]_vars

NextT ==
    \/ \E s \in Slots : New(s)
    \/ \E c \in EqCalls : Eq(c)

SpecT == InitT /\ [][NextT]_vars

(* ---------------------------------------------------------------- claims *)

C12 == <<"pair1", "pair2">>
C23 == <<"pair2", "pair3">>
C13 == <<"pair1", "pair3">>

\* The two values pair1 is built from, in the order given.
X == tuple["pair1"][1]
Y == tuple["pair1"][2]

\* pair2 is built from the same two values in the opposite order.
Swapped == tuple["pair2"] = <<Y, X>>

\* pair2 is built from the same two values in the same order.
SameOrder == tuple["pair2"] = <<X, Y>>

Built(s) == pair[s] # None
Hashed(s) == Len(hasher[s]) > 0

\* T's equality is reflexive on the two values.
ReflexiveXY == ElemEq(ty, X, X) /\ ElemEq(ty, Y, Y)

\* (T, T)'s ==: componentwise T's ==.
TupleEq(t, u) == ElemEq(ty, t[1], u[1]) /\ ElemEq(ty, t[2], u[2])

\* min and max under T's order (on a tie min is the first argument, max the
\* second).
ElemMin(a, b) == IF ElemCmp(a, b) = "Greater" THEN b ELSE a
ElemMax(a, b) == IF ElemCmp(a, b) = "Greater" THEN a ELSE b

\* T's == is an equivalence relation on the values of the element type.
EqIsEquivalence ==
    /\ \A a \in Elems(ty) : ElemEq(ty, a, a)
    /\ \A a, b \in Elems(ty) : ElemEq(ty, a, b) => ElemEq(ty, b, a)
    /\ \A a, b, c \in Elems(ty) :
          ElemEq(ty, a, b) /\ ElemEq(ty, b, c) => ElemEq(ty, a, c)

\* T's order is total and agrees with T's ==.
OrdAgreesWithEq ==
    /\ IsOrd(ty)
    /\ \A a, b \in Elems(ty) : (ElemCmp(a, b) = "Equal") <=> ElemEq(ty, a, b)
    /\ \A a, b \in Elems(ty) : (ElemCmp(a, b) = "Less") <=> (ElemCmp(b, a) = "Greater")

\* C1 as stated: for ALL x, y of a type with equality, UnorderedPair(x, y) ==
\* UnorderedPair(y, x) is true.  (Refuted by a NaN element.)
C1_SwapEqualForAll ==
    (Swapped /\ eqres[C12] # None) => eqres[C12] = Some(TRUE)

\* C1 amended: for all x, y with x == x and y == y under the element type's
\* equality, UnorderedPair(x, y) == UnorderedPair(y, x) is true.
C1_SwapEqualWhenReflexive ==
    (Swapped /\ ReflexiveXY /\ eqres[C12] # None) => eqres[C12] = Some(TRUE)

C1_Witness ==
    /\ Swapped
    /\ ReflexiveXY
    /\ X.k # Y.k
    /\ eqres[C12] = Some(TRUE)

\* C2: hashing UnorderedPair(x, y) and UnorderedPair(y, x) feeds the hasher the
\* same sequence of elements (same under the element type's equality), and the
\* two hashers finish with the same value.
C2_HashOrderIndependent ==
    (Swapped /\ Hashed("pair1") /\ Hashed("pair2")) =>
        /\ Len(hasher["pair1"]) = Len(hasher["pair2"])
        /\ \A i \in DOMAIN hasher["pair1"] :
              ElemEq(ty, hasher["pair1"][i], hasher["pair2"][i])
        /\ finish(hasher["pair1"]) = finish(hasher["pair2"])

C2_Witness ==
    /\ Swapped
    /\ X.k # Y.k
    /\ Hashed("pair1")
    /\ Hashed("pair2")
    /\ pair["pair1"] # pair["pair2"]

\* C3: over an element type whose order is total and agrees with its equality,
\* two pairs that compare equal feed the hasher the same sequence and finish
\* with the same hash value.
C3_EqualPairsHashEqual ==
    (OrdAgreesWithEq /\ eqres[C12] = Some(TRUE) /\ Hashed("pair1") /\ Hashed("pair2")) =>
        /\ Len(hasher["pair1"]) = Len(hasher["pair2"])
        /\ \A i \in DOMAIN hasher["pair1"] :
              ElemEq(ty, hasher["pair1"][i], hasher["pair2"][i])
        /\ finish(hasher["pair1"]) = finish(hasher["pair2"])

C3_Witness ==
    /\ OrdAgreesWithEq
    /\ eqres[C12] = Some(TRUE)
    /\ Hashed("pair1")
    /\ Hashed("pair2")
    /\ pair["pair1"] # pair["pair2"]
    /\ X.k # Y.k

\* C4: the ordered tuples of UnorderedPair(a, b) and UnorderedPair(b, a) are
\* equal, both equal (min(a, b), max(a, b)), and their components run smallest
\* to largest.
C4_OrderedTupleCanonical ==
    (Swapped /\ ordered["pair1"] # None /\ ordered["pair2"] # None) =>
        /\ TupleEq(ordered["pair1"][1], ordered["pair2"][1])
        /\ TupleEq(ordered["pair1"][1], <<ElemMin(X, Y), ElemMax(X, Y)>>)
        /\ TupleEq(ordered["pair2"][1], <<ElemMin(X, Y), ElemMax(X, Y)>>)
        /\ \A s \in MainSlots :
              ElemCmp(ordered[s][1][1], ordered[s][1][2]) # "Greater"

C4_Witness ==
    /\ Swapped
    /\ ElemCmp(X, Y) = "Greater"
    /\ ordered["pair1"] # None
    /\ ordered["pair2"] # None
    /\ ordered["pair1"] = ordered["pair2"]

\* C5: a tuple converted into a pair and back is the tuple itself, the pair
\* holds the tuple's components in their positions, and pairs built from (a, b)
\* and (b, a) with a, b different convert to different tuples.
C5_TupleRoundTrip ==
    /\ \A s \in MainSlots :
          Built(s) => pair[s][1].first = tuple[s][1] /\ pair[s][1].second = tuple[s][2]
    /\ \A s \in MainSlots : into[s] # None => into[s][1] = tuple[s]
    /\ (Swapped /\ X # Y /\ into["pair1"] # None /\ into["pair2"] # None) =>
          into["pair1"] # into["pair2"]

C5_Witness ==
    /\ Swapped
    /\ ElemCmp(X, Y) = "Greater"
    /\ into["pair1"] = Some(<<X, Y>>)
    /\ into["pair2"] = Some(<<Y, X>>)

\* C6: for x, y whose own equality is reflexive, two pairs built from x, y in
\* the same order compare equal.
C6_SameOrderEqual ==
    (SameOrder /\ ReflexiveXY /\ eqres[C12] # None) => eqres[C12] = Some(TRUE)

C6_Witness ==
    /\ SameOrder
    /\ ReflexiveXY
    /\ X.k # Y.k
    /\ eqres[C12] = Some(TRUE)

\* The first value pair1 is built from is equal to no value of its type, itself
\* included.
FirstEqualsNothing == \A v \in Elems(ty) : ~ElemEq(ty, X, v)

\* C7: if n is equal to no value, itself included, then UnorderedPair(n, y) is
\* unequal to UnorderedPair(y, n) and to UnorderedPair(n, y).
C7_NaNNeverEqual ==
    (FirstEqualsNothing /\ (Swapped \/ SameOrder) /\ eqres[C12] # None) =>
        eqres[C12] = Some(FALSE)

C7_Witness ==
    /\ FirstEqualsNothing
    /\ ~IsNaN(ty, Y)
    /\ Swapped
    /\ eqres[C12] = Some(FALSE)

\* C9: unless the first-stored element compares Greater than the second-stored
\* one, into_ordered_tuple returns (first-stored, second-stored) and hash feeds
\* first-stored then second-stored; on Greater both are swapped.
C9_TieKeepsStoredOrder ==
    \A s \in MainSlots :
        Built(s) =>
            LET first == pair[s][1].first
                second == pair[s][1].second
                kept == <<first, second>>
                swapped == <<second, first>>
                want == IF ElemCmp(first, second) = "Greater" THEN swapped ELSE kept
            IN  /\ ordered[s] # None => ordered[s][1] = want
                /\ Hashed(s) => hasher[s] = want

C9_Witness ==
    /\ Built("pair1")
    /\ ElemCmp(pair["pair1"][1].first, pair["pair1"][1].second) = "Equal"
    /\ pair["pair1"][1].first # pair["pair1"][1].second
    /\ ordered["pair1"] = Some(<<pair["pair1"][1].first, pair["pair1"][1].second>>)
    /\ hasher["pair1"] = <<pair["pair1"][1].first, pair["pair1"][1].second>>

\* C10: when the element type's equality is an equivalence relation, pair
\* equality is transitive: p == q and q == r imply p == r.
C10_Transitive ==
    (/\ EqIsEquivalence
     /\ eqres[C12] = Some(TRUE)
     /\ eqres[C23] = Some(TRUE)
     /\ eqres[C13] # None) => eqres[C13] = Some(TRUE)

C10_Witness ==
    /\ EqIsEquivalence
    /\ eqres[C12] = Some(TRUE)
    /\ eqres[C23] = Some(TRUE)
    /\ eqres[C13] = Some(TRUE)
    /\ X.k # Y.k
    /\ pair["pair1"] # pair["pair2"]
    /\ pair["pair2"] # pair["pair3"]

====
